---- MODULE Spec2Model ----
(***************************************************************************)
(* OpenApiValidator (src/src/index.ts): construction of the validator      *)
(* (validateOptions, normalizeOptions, defaulting), install / installSync, *)
(* installMiddleware with its seven install steps, the app.param callback  *)
(* and the operation-handler resolution loop.                              *)
(*                                                                         *)
(* JavaScript values are written as strings: "undefined", "true", "false", *)
(* "0", "''" and names for the objects and strings that occur.             *)
(***************************************************************************)
EXTENDS Integers, Sequences, FiniteSets, TLC

VARIABLES
  given,      \* the options object as the caller built it (never changes)
  options,    \* the caller's options object, mutated in place by the constructor
  ctor,       \* "new" | "constructed" | "threw"
  ctorError,  \* the message thrown by the constructor, or "none"
  doc,        \* what the spec loader yields: [components, routes]
  modules,    \* the handler module behind each module path
  app,        \* the registrations made on the express app, in order
  inst,       \* the progress and outcome of install / installSync
  req,        \* the request in flight through the app's stack
  paramRun    \* the last run of an app.param callback

vars == <<given, options, ctor, ctorError, doc, modules, app, inst, req, paramRun>>

-----------------------------------------------------------------------------
(* JavaScript truthiness and nullishness of the encoded values.            *)

Undefined == "undefined"

Falsy == {"undefined", "null", "false", "0", "''"}

Truthy(v) == v \notin Falsy

IsNullish(v) == v \in {"undefined", "null"}

\* typeof v === 'object' && !Array.isArray(v), for the values options may hold
IsPlainObject(v) == v \in {"secHandlers", "multerObj", "secOpts", "uploadOpts"}

-----------------------------------------------------------------------------
(* validateOptions: the message of the first error thrown, or "none".      *)

ErrApiSpec == "apiSpec required"
ErrSecHandlersType == "securityHandlers must be an object or undefined"
ErrSecTogether == "securityHandlers and validateSecurity may not be used together"
ErrMulterType == "multerOpts must be an object or undefined"
ErrMulterTogether == "multerOpts and fileUploader may not be used together"
ErrUnknownFormats == "unknownFormats must contain an array of unknownFormats, 'ignore' or true"

IsBoolean(v) == v \in {"true", "false"}

IsString(v) == v \in {"'ignore'", "'strict'", "'handlers'", "'secHandlers'", "''"}

UnknownFormatsRejected(u) ==
  IF IsBoolean(u) THEN ~Truthy(u) ELSE IsString(u) /\ u # "'ignore'"

SecurityTogether(o) == Truthy(o.securityHandlers) /\ Truthy(o.validateSecurity)

MulterTogether(o) == Truthy(o.multerOpts) /\ Truthy(o.fileUploader)

validateOptions(o) ==
  IF ~Truthy(o.apiSpec) THEN ErrApiSpec
  ELSE IF ~IsNullish(o.securityHandlers) /\ ~IsPlainObject(o.securityHandlers)
    THEN ErrSecHandlersType
  ELSE IF SecurityTogether(o) THEN ErrSecTogether
  ELSE IF ~IsNullish(o.multerOpts) /\ ~IsPlainObject(o.multerOpts)
    THEN ErrMulterType
  ELSE IF MulterTogether(o) THEN ErrMulterTogether
  ELSE IF UnknownFormatsRejected(o.unknownFormats) THEN ErrUnknownFormats
  ELSE "none"

-----------------------------------------------------------------------------
(* normalizeOptions: the deprecated options renamed, then deleted.         *)

HandlersOf(h) == "{handlers:" \o h \o "}"

\* (<ValidateSecurityOpts>validateSecurity)?.handlers
handlersIn(v) ==
  CASE v = "{handlers:secHandlers}" -> "secHandlers"
    [] v = "secOpts" -> "optsHandlers"
    [] OTHER -> Undefined

normalizeSecurity(o) ==
  IF Truthy(o.securityHandlers)
    THEN [o EXCEPT !.validateSecurity = HandlersOf(o.securityHandlers),
                   !.securityHandlers = Undefined]
    ELSE o

normalizeUploader(o) ==
  IF Truthy(o.multerOpts)
    THEN [o EXCEPT !.fileUploader = o.multerOpts, !.multerOpts = Undefined]
    ELSE o

normalizeOptions(o) == normalizeUploader(normalizeSecurity(o))

-----------------------------------------------------------------------------
(* The constructor's defaults, lines 37-61.                                *)

Default(v, d) == IF IsNullish(v) THEN d ELSE v

AssignedUnknownFormats(o) ==
  [o EXCEPT !.unknownFormats = Default(o.unknownFormats, "true")]

\* line 37 compares (===) where the other lines assign: the object is unchanged
defaultUnknownFormats(o) == o

defaultOthers(o) ==
  [o EXCEPT !.coerceTypes = Default(o.coerceTypes, "true"),
            !.validateRequests = Default(o.validateRequests, "true"),
            !.validateResponses = Default(o.validateResponses, "false"),
            !.validateSecurity = Default(o.validateSecurity, "true"),
            !.fileUploader = Default(o.fileUploader, "{}"),
            !.refParser = Default(o.refParser, "{mode:'bundle'}"),
            !.operationHandlers = Default(o.operationHandlers, "false"),
            !.validateFormats = Default(o.validateFormats, "'fast'")]

expandTrue(o) ==
  [o EXCEPT !.validateResponses =
              IF @ = "true" THEN "{removeAdditional:false}" ELSE @,
            !.validateRequests =
              IF @ = "true" THEN "{allowUnknownQueryParameters:false}" ELSE @,
            !.validateSecurity = IF @ = "true" THEN "{}" ELSE @]

constructed(o) ==
  expandTrue(defaultOthers(defaultUnknownFormats(normalizeOptions(o))))

-----------------------------------------------------------------------------
(* The document and the handler modules.                                   *)
(* A route is one entry of context.routes: its path-parameter names and    *)
(* the three schema fields installOperationHandlers reads.  Its method and *)
(* expressRoute are given by its position in the route table.              *)

Ids == {"opA", "opB"}

ModuleNames == {"m1", "m2"}

NoError == [kind |-> "none", oId |-> "n/a", modulePath |-> "n/a", route |-> 0]

Err(kind, oId, modulePath, i) ==
  [kind |-> kind, oId |-> oId, modulePath |-> modulePath, route |-> i]

NoArgs ==
  [coerceTypes |-> "n/a", unknownFormats |-> "n/a", extra |-> "n/a",
   format |-> "n/a"]

Entry(stage, name, route, args) ==
  [stage |-> stage, name |-> name, route |-> route, args |-> args]

\* schema['x-eov-operation-id'] || schema['operationId']
operationIdOf(route) ==
  IF Truthy(route.xEovOperationId) THEN route.xEovOperationId
  ELSE route.operationId

-----------------------------------------------------------------------------
(* installPathParams: lodash uniq of the concatenated names, one app.param *)
(* registration for each.                                                  *)

RECURSIVE concatPathParams(_, _)
concatPathParams(routes, i) ==
  IF i > Len(routes) THEN <<>>
  ELSE routes[i].pathParams \o concatPathParams(routes, i + 1)

RECURSIVE uniq(_)
uniq(s) ==
  IF s = <<>> THEN <<>>
  ELSE LET init == uniq(SubSeq(s, 1, Len(s) - 1))
           last == s[Len(s)]
       IN IF \E k \in 1..Len(init) : init[k] = last THEN init
          ELSE Append(init, last)

paramEntries(names) ==
  [k \in 1..Len(names) |-> Entry("pathParams", names[k], 0, NoArgs)]

installPathParams(stack, d) ==
  stack \o paramEntries(uniq(concatPathParams(d.routes, 1)))

-----------------------------------------------------------------------------
(* The middleware install steps: one app.use each.                         *)

installMetadataMiddleware(stack) ==
  Append(stack, Entry("metadata", "", 0, NoArgs))

installMultipartMiddleware(stack, o) ==
  Append(stack, Entry("multipart", "", 0, [NoArgs EXCEPT !.extra = o.fileUploader]))

installSecurityMiddleware(stack, o) ==
  Append(stack, Entry("security", "", 0,
                      [NoArgs EXCEPT !.extra = handlersIn(o.validateSecurity)]))

\* const { allowUnknownQueryParameters } = <ValidateRequestOpts>validateRequests
allowUnknownQueryParametersOf(v) ==
  CASE v = "{allowUnknownQueryParameters:false}" -> "false"
    [] v = "reqOpts" -> "true"
    [] OTHER -> Undefined

\* const { removeAdditional } = <ValidateResponseOpts>validateResponses
removeAdditionalOf(v) ==
  CASE v = "{removeAdditional:false}" -> "false"
    [] v = "respOpts" -> "'failing'"
    [] OTHER -> Undefined

installRequestValidationMiddleware(stack, o) ==
  Append(stack, Entry("requestValidation", "", 0,
    [coerceTypes |-> o.coerceTypes,
     unknownFormats |-> o.unknownFormats,
     extra |-> allowUnknownQueryParametersOf(o.validateRequests),
     format |-> o.validateFormats]))

installResponseValidationMiddleware(stack, o) ==
  Append(stack, Entry("responseValidation", "", 0,
    [coerceTypes |-> o.coerceTypes,
     unknownFormats |-> o.unknownFormats,
     extra |-> removeAdditionalOf(o.validateResponses),
     format |-> o.validateFormats]))

-----------------------------------------------------------------------------
(* installOperationHandlers.  The loop's state: the app's stack, the       *)
(* tmpModules cache (per module path: "none", the "module" object or its   *)
(* "default" export), the number of require calls per path and the error   *)
(* thrown, if any.                                                         *)

EmptyCache == [m \in ModuleNames |-> "none"]

NoLoads == [m \in ModuleNames |-> 0]

LoopStart(stack) ==
  [app |-> stack, tmp |-> EmptyCache, loads |-> NoLoads, error |-> NoError]

\* the value held in tmpModules[modulePath] is truthy
cacheTruthy(c, module) ==
  c = "module" \/ (c = "default" /\ module.hasDefault)

\* tmpModules[modulePath][oId] is truthy, for a cache entry that is an object
exportsOf(c, module) == IF c = "module" THEN module.top ELSE module.def

\* lines 266-270: what the cache holds after a first load of the module
loadedAs(module, oId) ==
  IF oId \in module.top THEN "module" ELSE "default"

IdWithoutHandlerOnly(oId, baseName) ==
  IF Truthy(oId) /\ ~Truthy(baseName) THEN "x-eov-operation-handler required"
  ELSE "none"

\* lines 249-258: the error of a route whose pairing is inconsistent
pairingError(oId, baseName) ==
  IF Truthy(oId) /\ ~Truthy(baseName) THEN "x-eov-operation-handler required"
  ELSE IF ~Truthy(oId) /\ Truthy(baseName)
    THEN "operationId or x-eov-operation-id required"
  ELSE "none"

\* path.join(this.options.operationHandlers, baseName)
modulePathOf(oh, baseName) == baseName

\* typeof this.options.operationHandlers === 'string'
IsDirectory(oh) == oh = "'handlers'"

\* lines 264-278, for a route with both an identifier and a handler module
resolveRoute(st, i, oId, modulePath, mods) ==
  LET module == mods[modulePath]
      miss == ~cacheTruthy(st.tmp[modulePath], module)
      loads1 == IF miss THEN [st.loads EXCEPT ![modulePath] = @ + 1] ELSE st.loads
      tmp1 == IF miss THEN [st.tmp EXCEPT ![modulePath] = loadedAs(module, oId)]
              ELSE st.tmp
      c == tmp1[modulePath]
  IN IF miss /\ ~module.exists
       THEN [st EXCEPT !.loads = loads1,
                       !.error = Err("Cannot find module", "n/a", modulePath, i)]
     ELSE IF ~cacheTruthy(c, module)
       THEN [st EXCEPT !.loads = loads1, !.tmp = tmp1,
                       !.error = Err("TypeError", "n/a", "n/a", i)]
     ELSE IF oId \notin exportsOf(c, module)
       THEN [st EXCEPT !.loads = loads1, !.tmp = tmp1,
                       !.error = Err("Could not find 'x-eov-operation-handler'",
                                     oId, modulePath, i)]
     ELSE [st EXCEPT !.loads = loads1, !.tmp = tmp1,
                     !.app = Append(@, Entry("operationHandler", c, i,
                                             [NoArgs EXCEPT !.extra = oId]))]

\* one pass of the loop body, lines 246-279
routeStep(st, i, route, oh, mods) ==
  LET oId == operationIdOf(route)
      baseName == route.xEovOperationHandler
      pairing == pairingError(oId, baseName)
  IN IF pairing # "none"
       THEN [st EXCEPT !.error = Err(pairing, "n/a", "n/a", i)]
     ELSE IF Truthy(oId) /\ Truthy(baseName) /\ IsDirectory(oh)
       THEN resolveRoute(st, i, oId, modulePathOf(oh, baseName), mods)
     ELSE st

RECURSIVE routeLoop(_, _, _, _, _)
routeLoop(st, i, routes, oh, mods) ==
  IF i > Len(routes) \/ st.error # NoError THEN st
  ELSE routeLoop(routeStep(st, i, routes[i], oh, mods), i + 1, routes, oh, mods)

AllOrNothingHandlers(stack, o, d, mods) ==
  LET r == routeLoop(LoopStart(stack), 1, d.routes, o.operationHandlers, mods)
  IN IF r.error # NoError THEN [r EXCEPT !.app = stack] ELSE r

installOperationHandlers(stack, o, d, mods) ==
  routeLoop(LoopStart(stack), 1, d.routes, o.operationHandlers, mods)

-----------------------------------------------------------------------------
(* installMiddleware, lines 99-124.                                        *)

\* components?.securitySchemes
securitySchemesOf(d) ==
  IF d.components = "{securitySchemes}" THEN "securitySchemes" ELSE Undefined

SecurityAfterRequests(o, d, mods) ==
  LET s1 == installPathParams(<<>>, d)
      s2 == installMetadataMiddleware(s1)
      s3 == IF Truthy(o.fileUploader) THEN installMultipartMiddleware(s2, o) ELSE s2
      s4 == IF Truthy(o.validateRequests)
              THEN installRequestValidationMiddleware(s3, o) ELSE s3
      s5 == IF Truthy(o.validateSecurity) /\ Truthy(securitySchemesOf(d))
              THEN installSecurityMiddleware(s4, o) ELSE s4
      s6 == IF Truthy(o.validateResponses)
              THEN installResponseValidationMiddleware(s5, o) ELSE s5
  IN IF Truthy(o.operationHandlers)
       THEN installOperationHandlers(s6, o, d, mods)
       ELSE LoopStart(s6)

installMiddleware(o, d, mods) ==
  LET s1 == installPathParams(<<>>, d)
      s2 == installMetadataMiddleware(s1)
      s3 == IF Truthy(o.fileUploader) THEN installMultipartMiddleware(s2, o) ELSE s2
      s4 == IF Truthy(o.validateSecurity) /\ Truthy(securitySchemesOf(d))
              THEN installSecurityMiddleware(s3, o) ELSE s3
      s5 == IF Truthy(o.validateRequests)
              THEN installRequestValidationMiddleware(s4, o) ELSE s4
      s6 == IF Truthy(o.validateResponses)
              THEN installResponseValidationMiddleware(s5, o) ELSE s5
  IN IF Truthy(o.operationHandlers)
       THEN installOperationHandlers(s6, o, d, mods)
       ELSE LoopStart(s6)

-----------------------------------------------------------------------------
(* The app.param callback, lines 141-155.                                  *)
(* openapi is req.openapi: "undefined", an object "noPathParams" without   *)
(* pathParams, or an object "pathParams" whose pathParams[name] is value.  *)

\* pathParams[name] || req.params[name]
overridden(value, before) == IF Truthy(value) THEN value ELSE before

paramCallback(name, openapi, value, before) ==
  [name |-> name, openapi |-> openapi, value |-> value, before |-> before,
   after |-> IF openapi = "pathParams" THEN overridden(value, before) ELSE before,
   nexts |-> 1]

-----------------------------------------------------------------------------
(* install, lines 78-97.                                                   *)

\* callback && typeof callback === 'function'
useCallback(callback) == Truthy(callback) /\ callback = "function"

CatchesAlways(p) == TRUE

\* p.catch(...) runs its handler for a rejected p only
catches(p) == p = "rejected"

Idle ==
  [phase |-> "idle", mode |-> "n/a", callback |-> "n/a", returned |-> "n/a",
   p |-> "n/a", error |-> NoError, cbCalls |-> 0, cbArg |-> NoError,
   loads |-> NoLoads]

LoadError == Err("load", "n/a", "n/a", 0)

NoRequest == [status |-> "idle", pos |-> 0, route |-> 0, trace |-> <<>>]

NoParamRun ==
  [name |-> "n/a", openapi |-> "n/a", value |-> "n/a", before |-> "n/a",
   after |-> "n/a", nexts |-> 0]

-----------------------------------------------------------------------------
(* Actions.                                                                *)

\* new OpenApiValidator(options)
Construct ==
  /\ ctor = "new"
  /\ LET e == validateOptions(options)
     IN IF e # "none"
          THEN /\ ctor' = "threw"
               /\ ctorError' = e
               /\ options' = options
          ELSE /\ ctor' = "constructed"
               /\ ctorError' = "none"
               /\ options' = constructed(options)
  /\ UNCHANGED <<given, doc, modules, app, inst, req, paramRun>>

\* installSync(app): loadSync, then installMiddleware, in the caller's turn
InstallSync ==
  /\ ctor = "constructed"
  /\ inst.phase = "idle"
  /\ \E loaded \in BOOLEAN :
       IF ~loaded
         THEN /\ inst' = [inst EXCEPT !.phase = "settled", !.mode = "sync",
                                      !.error = LoadError]
              /\ app' = app
         ELSE LET r == installMiddleware(options, doc, modules)
              IN /\ app' = app \o r.app
                 /\ inst' = [inst EXCEPT !.phase = "settled", !.mode = "sync",
                                         !.returned = Undefined,
                                         !.error = r.error, !.loads = r.loads]
  /\ UNCHANGED <<given, options, ctor, ctorError, doc, modules, req, paramRun>>

\* install(app, callback): the load is started, p is pending
Install ==
  /\ ctor = "constructed"
  /\ inst.phase = "idle"
  /\ \E callback \in {Undefined, "function", "'callback'"} :
       inst' = [inst EXCEPT !.phase = "loading",
                            !.mode = IF useCallback(callback) THEN "callback"
                                     ELSE "promise",
                            !.callback = callback,
                            !.returned = IF useCallback(callback) THEN Undefined
                                         ELSE "promise",
                            !.p = "pending"]
  /\ UNCHANGED <<given, options, ctor, ctorError, doc, modules, app, req, paramRun>>

\* the loader's promise resolves with the document
LoadResolve ==
  /\ inst.phase = "loading"
  /\ inst' = [inst EXCEPT !.phase = "loaded"]
  /\ UNCHANGED <<given, options, ctor, ctorError, doc, modules, app, req, paramRun>>

\* the loader's promise rejects: then()'s callback is skipped, p rejects
LoadReject ==
  /\ inst.phase = "loading"
  /\ inst' = [inst EXCEPT !.phase = IF inst.mode = "callback" THEN "catching"
                                    ELSE "settled",
                          !.p = "rejected", !.error = LoadError]
  /\ UNCHANGED <<given, options, ctor, ctorError, doc, modules, app, req, paramRun>>

\* .then((spec) => this.installMiddleware(app, spec))
ThenInstallMiddleware ==
  /\ inst.phase = "loaded"
  /\ LET r == installMiddleware(options, doc, modules)
     IN /\ app' = app \o r.app
        /\ inst' = [inst EXCEPT !.phase = IF inst.mode = "callback" THEN "catching"
                                          ELSE "settled",
                                !.p = IF r.error = NoError THEN "fulfilled"
                                      ELSE "rejected",
                                !.error = r.error, !.loads = r.loads]
  /\ UNCHANGED <<given, options, ctor, ctorError, doc, modules, req, paramRun>>

\* p.catch((e) => { callback(e); })
CatchCallback ==
  /\ inst.phase = "catching"
  /\ inst' = IF catches(inst.p)
               THEN [inst EXCEPT !.phase = "settled", !.cbCalls = @ + 1,
                                 !.cbArg = inst.error]
               ELSE [inst EXCEPT !.phase = "settled"]
  /\ UNCHANGED <<given, options, ctor, ctorError, doc, modules, app, req, paramRun>>

-----------------------------------------------------------------------------
(* A request through the app's stack.  The host framework runs the layers  *)
(* in the order they were registered; app.param registrations are not      *)
(* layers, and a route layer runs for its own route only.                  *)

layerApplies(entry, r) ==
  /\ entry.stage # "pathParams"
  /\ entry.stage = "operationHandler" => entry.route = r

RECURSIVE nextLayer(_, _, _)
nextLayer(stack, pos, r) ==
  IF pos > Len(stack) \/ layerApplies(stack[pos], r) THEN pos
  ELSE nextLayer(stack, pos + 1, r)

StartRequest ==
  /\ inst.phase = "settled"
  /\ req.status = "idle"
  /\ \E r \in 0..Len(doc.routes) :
       req' = [status |-> "running", pos |-> nextLayer(app, 1, r), route |-> r,
               trace |-> <<>>]
  /\ UNCHANGED <<given, options, ctor, ctorError, doc, modules, app, inst, paramRun>>

RequestStep ==
  /\ req.status = "running"
  /\ IF req.pos > Len(app)
       THEN req' = [req EXCEPT !.status = "done"]
     ELSE IF app[req.pos].stage = "operationHandler"
       THEN req' = [req EXCEPT !.status = "done",
                               !.trace = Append(@, app[req.pos].stage)]
     ELSE \E passes \in BOOLEAN :
            req' = [req EXCEPT !.status = IF passes THEN "running" ELSE "failed",
                               !.pos = IF passes
                                         THEN nextLayer(app, req.pos + 1, req.route)
                                         ELSE @,
                               !.trace = Append(@, app[req.pos].stage)]
  /\ UNCHANGED <<given, options, ctor, ctorError, doc, modules, app, inst, paramRun>>

ParamValues == {"0", "false", "''", "7", "'x'"}

RawValues == {"'0'", "'x'", "'false'"}

registeredParams == {app[k].name : k \in {j \in 1..Len(app) : app[j].stage = "pathParams"}}

\* the host framework runs the callback of each parameter of the matched route
ParamCallback ==
  /\ req.status = "running"
  /\ req.pos <= Len(app)
  /\ app[req.pos].stage = "operationHandler"
  /\ \E k \in 1..Len(doc.routes[req.route].pathParams) :
       LET name == doc.routes[req.route].pathParams[k]
       IN /\ name \in registeredParams
          /\ \E openapi \in {Undefined, "noPathParams", "pathParams"} :
               \E value \in ParamValues \cup {Undefined}, before \in RawValues :
                 /\ openapi = "pathParams" <=> value \in ParamValues
                 /\ paramRun' = paramCallback(name, openapi, value, before)
  /\ UNCHANGED <<given, options, ctor, ctorError, doc, modules, app, inst, req>>

-----------------------------------------------------------------------------
(* Initial states: the options the caller passes, the document the loader  *)
(* yields and the handler modules on disk.                                 *)

MaxRoutes == 2

SeqsUpTo(S, n) == UNION {[1..k -> S] : k \in 0..n}

NoOptions ==
  [apiSpec |-> Undefined, securityHandlers |-> Undefined,
   validateSecurity |-> Undefined, multerOpts |-> Undefined,
   fileUploader |-> Undefined, unknownFormats |-> Undefined,
   coerceTypes |-> Undefined, validateRequests |-> Undefined,
   validateResponses |-> Undefined, operationHandlers |-> Undefined,
   validateFormats |-> Undefined, refParser |-> Undefined]

CtorOptions ==
  [apiSpec : {Undefined, "'api.yaml'"},
   securityHandlers : {Undefined, "secHandlers", "'secHandlers'"},
   validateSecurity : {Undefined, "true", "false", "secOpts"},
   multerOpts : {Undefined, "multerObj"},
   fileUploader : {Undefined, "false", "uploadOpts"},
   unknownFormats : {Undefined, "true", "false", "'ignore'", "'strict'", "['f']"},
   coerceTypes : {Undefined, "false"},
   validateRequests : {Undefined, "false"},
   validateResponses : {Undefined, "true"},
   operationHandlers : {Undefined, "'handlers'"},
   validateFormats : {Undefined, "'full'"},
   refParser : {Undefined, "{mode:'dereference'}"}]

PipelineOptions ==
  [apiSpec : {"'api.yaml'"},
   securityHandlers : {Undefined, "secHandlers"},
   validateSecurity : {Undefined, "false", "secOpts"},
   multerOpts : {Undefined, "multerObj"},
   fileUploader : {Undefined, "false"},
   unknownFormats : {Undefined, "'ignore'"},
   coerceTypes : {Undefined},
   validateRequests : {Undefined, "false", "reqOpts"},
   validateResponses : {Undefined, "true", "respOpts"},
   operationHandlers : {Undefined, "true", "'handlers'"},
   validateFormats : {Undefined},
   refParser : {Undefined}]

HandlerOptions ==
  {[NoOptions EXCEPT !.apiSpec = "'api.yaml'", !.operationHandlers = oh] :
     oh \in {Undefined, "true", "'handlers'"}}

GoodModule == [exists |-> TRUE, top |-> Ids, hasDefault |-> FALSE, def |-> {}]

ModuleShapes ==
  {[exists |-> FALSE, top |-> {}, hasDefault |-> FALSE, def |-> {}]}
  \cup [exists : {TRUE}, top : SUBSET Ids, hasDefault : {TRUE}, def : SUBSET Ids]
  \cup [exists : {TRUE}, top : SUBSET Ids, hasDefault : {FALSE}, def : {{}}]

GoodModules == [m \in ModuleNames |-> GoodModule]

HandlerRoutes ==
  [pathParams : {<<"id">>}, operationId : {Undefined, "opA"},
   xEovOperationId : {Undefined, "opB"},
   xEovOperationHandler : {Undefined, "m1"}]

ParamRoutes ==
  [pathParams : {<<>>, <<"id">>, <<"name">>, <<"id", "name">>},
   operationId : {"opA"}, xEovOperationId : {Undefined},
   xEovOperationHandler : {"m2"}]

Route(pathParams, operationId, handler) ==
  [pathParams |-> pathParams, operationId |-> operationId,
   xEovOperationId |-> Undefined, xEovOperationHandler |-> handler]

PipelineRoutes ==
  {<<>>,
   <<Route(<<"id">>, "opA", "m1"), Route(<<>>, "opB", Undefined)>>}

InitCommon ==
  /\ options = given
  /\ ctor = "new"
  /\ ctorError = "none"
  /\ app = <<>>
  /\ inst = Idle
  /\ req = NoRequest
  /\ paramRun = NoParamRun

InitCtor ==
  /\ given \in CtorOptions
  /\ doc = [components |-> Undefined, routes |-> <<>>]
  /\ modules = GoodModules
  /\ InitCommon

InitHandlers ==
  /\ given \in HandlerOptions
  /\ doc \in [components : {Undefined}, routes : SeqsUpTo(HandlerRoutes, MaxRoutes)]
  /\ modules \in [ModuleNames -> ModuleShapes]
  /\ modules["m2"] = GoodModule
  /\ InitCommon

InitPipeline ==
  /\ given \in PipelineOptions
  /\ doc \in [components : {Undefined, "{}", "{securitySchemes}"},
              routes : PipelineRoutes]
  /\ modules = GoodModules
  /\ InitCommon

InitParam ==
  /\ given \in {[NoOptions EXCEPT !.apiSpec = "'api.yaml'",
                                  !.operationHandlers = oh] :
                  oh \in {Undefined, "'handlers'"}}
  /\ doc \in [components : {Undefined}, routes : SeqsUpTo(ParamRoutes, MaxRoutes)]
  /\ modules = GoodModules
  /\ InitCommon

NextInstall ==
  \/ Construct
  \/ InstallSync
  \/ Install
  \/ LoadResolve
  \/ LoadReject
  \/ ThenInstallMiddleware
  \/ CatchCallback

NextRequest ==
  \/ NextInstall
  \/ StartRequest
  \/ RequestStep

Next ==
  \/ NextRequest
  \/ ParamCallback

SpecCtor == InitCtor /\ [][Construct]_vars

SpecHandlers == InitHandlers /\ [][NextInstall]_vars

SpecPipeline == InitPipeline /\ [][NextRequest]_vars

Spec == InitParam /\ [][Next]_vars

-----------------------------------------------------------------------------
(* Vocabulary of the properties.                                           *)

\* installMiddleware has run on the app (to its end or to the error it threw)
MiddlewareInstalled ==
  inst.phase \in {"catching", "settled"} /\ inst.error.kind # "load"

StageRank(stage) ==
  CASE stage = "pathParams" -> 1
    [] stage = "metadata" -> 2
    [] stage = "multipart" -> 3
    [] stage = "security" -> 4
    [] stage = "requestValidation" -> 5
    [] stage = "responseValidation" -> 6
    [] stage = "operationHandler" -> 7

Middlewares ==
  {"metadata", "multipart", "security", "requestValidation", "responseValidation"}

StageSeq(stack) == [k \in 1..Len(stack) |-> stack[k].stage]

Ascending(stages) ==
  \A i, j \in 1..Len(stages) :
    i < j => /\ StageRank(stages[i]) <= StageRank(stages[j])
             /\ stages[i] \in Middlewares => stages[i] # stages[j]

HasStage(stage) == \E k \in 1..Len(app) : app[k].stage = stage

StageEntry(stage) == app[CHOOSE k \in 1..Len(app) : app[k].stage = stage]

Entered(stage) == \E k \in 1..Len(req.trace) : req.trace[k] = stage

Supplied(v) == v # Undefined

HasBoth(route) ==
  Truthy(operationIdOf(route)) /\ Truthy(route.xEovOperationHandler)

Mismatched(route) ==
  Truthy(operationIdOf(route)) # Truthy(route.xEovOperationHandler)

PairingErrors ==
  {"x-eov-operation-handler required", "operationId or x-eov-operation-id required"}

\* the handler registrations, as the route each was made for
RECURSIVE handlerRoutes(_)
handlerRoutes(stack) ==
  IF stack = <<>> THEN <<>>
  ELSE IF stack[1].stage = "operationHandler"
    THEN <<stack[1].route>> \o handlerRoutes(Tail(stack))
  ELSE handlerRoutes(Tail(stack))

RECURSIVE routesWithBoth(_, _, _)
routesWithBoth(routes, i, last) ==
  IF i > last THEN <<>>
  ELSE IF HasBoth(routes[i]) THEN <<i>> \o routesWithBoth(routes, i + 1, last)
  ELSE routesWithBoth(routes, i + 1, last)

\* route i was reached by the loop of installOperationHandlers
Reached(i) == inst.error = NoError \/ i <= inst.error.route

-----------------------------------------------------------------------------
(* C1: the stages are registered in the order path parameters, metadata,   *)
(* multipart, security, request validation, response validation, operation *)
(* handlers, each middleware at most once and the metadata middleware      *)
(* whenever anything is registered; a request enters the stages in that    *)
(* order, the metadata (route resolving) stage first.                      *)
C1_StageOrder ==
  /\ Ascending(StageSeq(app))
  /\ app # <<>> => HasStage("metadata")
  /\ \A k \in 1..Len(req.trace) : StageRank(req.trace[k]) >= 2
  /\ \A i, j \in 1..Len(req.trace) :
       i < j => StageRank(req.trace[i]) < StageRank(req.trace[j])
  /\ req.trace # <<>> => req.trace[1] = "metadata"

C1_Witness ==
  /\ HasStage("pathParams")
  /\ HasStage("security")
  /\ HasStage("responseValidation")
  /\ req.status = "done"
  /\ Entered("security")
  /\ Entered("requestValidation")
  /\ Entered("operationHandler")

-----------------------------------------------------------------------------
FirstMismatch ==
  CHOOSE i \in 1..Len(doc.routes) :
    /\ Mismatched(doc.routes[i])
    /\ \A j \in 1..(i - 1) : ~Mismatched(doc.routes[j])

(* C2: with operation handlers enabled, an install whose document has a    *)
(* route with an identifier and no handler module, or a handler module and *)
(* no identifier, ends in an error, raised no later than at the first such *)
(* route and, when raised there, the pairing error; it is the error the    *)
(* install call itself throws or rejects with.  A document whose routes    *)
(* all declare both or neither raises no pairing error.                    *)
C2_PairingEnforced ==
  (MiddlewareInstalled /\ Truthy(options.operationHandlers)) =>
    IF \E i \in 1..Len(doc.routes) : Mismatched(doc.routes[i])
      THEN /\ inst.error # NoError
           /\ inst.error.route \in 1..FirstMismatch
           /\ inst.error.route = FirstMismatch => inst.error.kind \in PairingErrors
           /\ inst.mode # "sync" => inst.p = "rejected"
      ELSE inst.error.kind \notin PairingErrors

C2_Witness ==
  /\ MiddlewareInstalled
  /\ options.operationHandlers = "true"
  /\ inst.error.kind = "operationId or x-eov-operation-id required"
  /\ inst.error.route = 2

-----------------------------------------------------------------------------
Resolvable(route) ==
  LET module == modules[route.xEovOperationHandler]
  IN /\ module.exists
     /\ \/ operationIdOf(route) \in module.top
        \/ module.hasDefault /\ operationIdOf(route) \in module.def

ResolvedFrom(route) ==
  IF operationIdOf(route) \in modules[route.xEovOperationHandler].top
    THEN "module" ELSE "default"

(* C3: every route reached by the loop that has an identifier and a        *)
(* handler module, and whose identifier the module exports at top level or *)
(* under its default export, gets its handler registered, from the top     *)
(* level if it is there and from the default export otherwise, whatever    *)
(* routes of the same module came before; no module path is loaded twice.  *)
C3_ResolvesEachRoute ==
  (MiddlewareInstalled /\ IsDirectory(options.operationHandlers)) =>
    /\ \A i \in 1..Len(doc.routes) :
         (Reached(i) /\ HasBoth(doc.routes[i]) /\ Resolvable(doc.routes[i])) =>
           \E k \in 1..Len(app) :
             /\ app[k].stage = "operationHandler"
             /\ app[k].route = i
             /\ app[k].name = ResolvedFrom(doc.routes[i])
             /\ app[k].args.extra = operationIdOf(doc.routes[i])
    /\ \A m \in ModuleNames : inst.loads[m] <= 1

-----------------------------------------------------------------------------
(* C4: a route reached by the loop whose module loads but exports the      *)
(* identifier neither at top level nor under a default export (which it    *)
(* may lack) ends the install with the error naming the identifier and the *)
(* module path, and has no handler registered.                             *)
C4_NamesMissingHandler ==
  (MiddlewareInstalled /\ IsDirectory(options.operationHandlers)) =>
    \A i \in 1..Len(doc.routes) :
      (/\ Reached(i)
       /\ HasBoth(doc.routes[i])
       /\ modules[doc.routes[i].xEovOperationHandler].exists
       /\ ~Resolvable(doc.routes[i])) =>
        /\ inst.error = Err("Could not find 'x-eov-operation-handler'",
                            operationIdOf(doc.routes[i]),
                            doc.routes[i].xEovOperationHandler, i)
        /\ \A k \in 1..Len(app) :
             app[k].stage = "operationHandler" => app[k].route # i

-----------------------------------------------------------------------------
(* C5: the constructor throws when apiSpec is missing, when                *)
(* securityHandlers and validateSecurity are both supplied and when        *)
(* multerOpts and fileUploader are both supplied, and whenever it throws   *)
(* the options object is as the caller passed it.                          *)
C5_ConflictsThrow ==
  ctor # "new" =>
    /\ (\/ ~Truthy(given.apiSpec)
        \/ Supplied(given.securityHandlers) /\ Supplied(given.validateSecurity)
        \/ Supplied(given.multerOpts) /\ Supplied(given.fileUploader))
         => ctor = "threw"
    /\ ctor = "threw" => options = given

-----------------------------------------------------------------------------
DeclaredParams ==
  UNION {{doc.routes[i].pathParams[k] : k \in 1..Len(doc.routes[i].pathParams)} :
           i \in 1..Len(doc.routes)}

(* C6: one app.param registration for each declared path parameter name;   *)
(* a run of the callback calls next() once, leaves req.params[name] equal  *)
(* to openapi.pathParams[name] when the request carries pathParams, and    *)
(* leaves it as it was when the request has no openapi metadata.           *)
C6_ParamOverridden ==
  /\ MiddlewareInstalled =>
       \A n \in DeclaredParams :
         Cardinality({k \in 1..Len(app) :
                        app[k].stage = "pathParams" /\ app[k].name = n}) = 1
  /\ paramRun.name # "n/a" =>
       /\ paramRun.nexts = 1
       /\ paramRun.openapi = "pathParams" => paramRun.after = paramRun.value
       /\ paramRun.openapi = Undefined => paramRun.after = paramRun.before

-----------------------------------------------------------------------------
(* C7: response validation is installed exactly when validateResponses was *)
(* supplied truthy; request validation exactly when validateRequests is    *)
(* not false, by default with unknown query parameters disallowed;         *)
(* security exactly when validateSecurity is not false and the document    *)
(* has components.securitySchemes, and no request enters a security check  *)
(* of a document without them.                                             *)
C7_StagesWhenEnabled ==
  /\ MiddlewareInstalled =>
       /\ HasStage("responseValidation") <=> Truthy(given.validateResponses)
       /\ HasStage("requestValidation") <=> given.validateRequests # "false"
       /\ (HasStage("requestValidation") /\ ~Supplied(given.validateRequests))
            => StageEntry("requestValidation").args.extra = "false"
       /\ HasStage("security") <=>
            (given.validateSecurity # "false" /\ Truthy(securitySchemesOf(doc)))
  /\ ~Truthy(securitySchemesOf(doc)) => ~Entered("security")

-----------------------------------------------------------------------------
Defaults ==
  [coerceTypes |-> "true",
   validateRequests |-> "{allowUnknownQueryParameters:false}",
   validateResponses |-> "false",
   validateSecurity |-> "{}",
   fileUploader |-> "{}",
   refParser |-> "{mode:'bundle'}",
   operationHandlers |-> "false",
   validateFormats |-> "'fast'"]

UnknownFormatsStaysUnset ==
  /\ options.unknownFormats = Undefined
  /\ \A k \in 1..Len(app) :
       app[k].stage \in {"requestValidation", "responseValidation"}
         => app[k].args.unknownFormats = Undefined

(* C8: constructed with unknownFormats omitted, options.unknownFormats is  *)
(* still unset and both validators are handed that unset value, while      *)
(* every other omitted option holds its default.                           *)
C8_Original ==
  (ctor = "constructed" /\ ~Supplied(given.unknownFormats)) =>
    /\ UnknownFormatsStaysUnset
    /\ \A f \in DOMAIN Defaults : ~Supplied(given[f]) => options[f] = Defaults[f]

DeprecatedName(f) ==
  CASE f = "validateSecurity" -> "securityHandlers"
    [] f = "fileUploader" -> "multerOpts"
    [] OTHER -> "none"

RenamedFrom(f) ==
  IF f = "validateSecurity" THEN HandlersOf(given.securityHandlers)
  ELSE given.multerOpts

(* C8, amended: as above, except that an omitted validateSecurity holds    *)
(* {handlers: securityHandlers} when the deprecated securityHandlers was   *)
(* supplied, and an omitted fileUploader holds the deprecated multerOpts   *)
(* when that was supplied.                                                 *)
C8_DefaultsButUnknownFormats ==
  (ctor = "constructed" /\ ~Supplied(given.unknownFormats)) =>
    /\ UnknownFormatsStaysUnset
    /\ \A f \in DOMAIN Defaults :
         ~Supplied(given[f]) =>
           IF DeprecatedName(f) # "none" /\ Truthy(given[DeprecatedName(f)])
             THEN options[f] = RenamedFrom(f)
             ELSE options[f] = Defaults[f]

C8_Witness ==
  /\ MiddlewareInstalled
  /\ ~Supplied(given.unknownFormats)
  /\ ~Supplied(given.validateRequests)
  /\ ~Supplied(given.validateSecurity)
  /\ ~Supplied(given.fileUploader)
  /\ ~Supplied(given.operationHandlers)
  /\ Supplied(given.multerOpts)
  /\ HasStage("requestValidation")
  /\ HasStage("responseValidation")

-----------------------------------------------------------------------------
InstalledToTheEnd ==
  /\ inst.error = NoError
  /\ HasStage("metadata")
  /\ Len(handlerRoutes(app)) =
       IF IsDirectory(options.operationHandlers)
         THEN Len(routesWithBoth(doc.routes, 1, Len(doc.routes))) ELSE 0

(* C9: install with a callback function returns undefined and has called   *)
(* the callback, once it is settled, exactly once with the error if the    *)
(* load or installMiddleware failed and not at all otherwise; install      *)
(* without one returns a promise, fulfilled only after installMiddleware   *)
(* ran to its end and rejected with the error otherwise; nothing is        *)
(* registered on the app while the load is pending.                        *)
C9_CallbackOrPromise ==
  /\ inst.phase = "loading" => (app = <<>> /\ inst.p = "pending")
  /\ inst.mode = "callback" =>
       /\ inst.callback = "function"
       /\ inst.returned = Undefined
       /\ inst.phase # "settled" => inst.cbCalls = 0
       /\ inst.phase = "settled" =>
            /\ inst.cbCalls = IF inst.error # NoError THEN 1 ELSE 0
            /\ inst.cbArg = inst.error
            /\ inst.error = NoError => InstalledToTheEnd
  /\ inst.mode = "promise" =>
       /\ inst.callback # "function"
       /\ inst.returned = "promise"
       /\ inst.cbCalls = 0
       /\ inst.p = "fulfilled" => InstalledToTheEnd
       /\ inst.p = "rejected" => inst.error # NoError
       /\ inst.phase = "settled" => inst.p \in {"fulfilled", "rejected"}

C9_Witness ==
  /\ inst.mode = "callback"
  /\ inst.phase = "settled"
  /\ inst.cbCalls = 1
  /\ inst.cbArg.kind \in PairingErrors
  /\ HasStage("requestValidation")

-----------------------------------------------------------------------------
BeforeHandlers ==
  installMiddleware([options EXCEPT !.operationHandlers = "false"], doc, modules).app

(* C10: when installOperationHandlers throws at a route, the app keeps     *)
(* what the install registered before it: the path-parameter callbacks and *)
(* the middlewares, then the handlers of the routes before the failing one *)
(* that have an identifier and a handler module (with a handler directory  *)
(* configured), and no handler of the failing route or a later one.        *)
C10_PartialInstallKept ==
  (MiddlewareInstalled /\ inst.error # NoError) =>
    /\ Len(app) >= Len(BeforeHandlers)
    /\ SubSeq(app, 1, Len(BeforeHandlers)) = BeforeHandlers
    /\ HasStage("pathParams")
    /\ HasStage("metadata")
    /\ HasStage("requestValidation")
    /\ \A k \in (Len(BeforeHandlers) + 1)..Len(app) :
         app[k].stage = "operationHandler"
    /\ handlerRoutes(app) =
         IF IsDirectory(options.operationHandlers)
           THEN routesWithBoth(doc.routes, 1, inst.error.route - 1)
           ELSE <<>>

C10_Witness ==
  /\ MiddlewareInstalled
  /\ inst.error.kind = "Could not find 'x-eov-operation-handler'"
  /\ inst.error.route = 2
  /\ HasStage("pathParams")
  /\ handlerRoutes(app) = <<1>>

====
